---------------------------- MODULE Spec2Model ----------------------------
(***************************************************************************)
(* A model of lasm (src/main.go): the two-pass assembler that turns a      *)
(* line-oriented assembly source into bit strings and then into a hex      *)
(* image.                                                                  *)
(*                                                                         *)
(* Text is modelled character by character: a Go string is a sequence of   *)
(* one-character strings, so that TrimSpace, Fields, HasPrefix, Atoi,      *)
(* ParseInt and the %08b / %04X verbs are computed, not assumed.           *)
(* Numbers that may exceed the model checker's integers (the result of     *)
(* Atoi, the value of an instruction) are kept as a sign and a sequence of *)
(* binary digits, most significant first, without leading zeros.           *)
(***************************************************************************)
EXTENDS Integers, Sequences, FiniteSets, TLC

(***************************************************************************)
(* Bounds of the model.                                                    *)
(***************************************************************************)
\* longest source of the specification Spec, in lines
MaxLines == 4
\* most operand tokens of a line of the specification SpecData
MaxOperands == 3
\* longest run of leading instruction lines of the specification SpecLong
MaxLong == 256

(***************************************************************************)
(* Program constants.                                                      *)
(***************************************************************************)
\* rows of the hex image below which filler is written (main.go:107)
HexCapacity == 64
\* width of the %08b verb (main.go:249, main.go:267) and of a 0b literal (main.go:256)
DataWidth == 8
\* width of the %04X verb (main.go:103)
HexWidth == 4
\* strconv.IntSize of a 64-bit build: the range of Atoi (main.go:263) and of
\* ParseInt(instr, 2, 64) (main.go:99)
IntSize == 64

(***************************************************************************)
(* Strings.                                                                *)
(***************************************************************************)
BinDigits == {"0", "1"}
DecDigits == {"0", "1", "2", "3", "4", "5", "6", "7", "8", "9"}

\* unicode.IsSpace, on the white space the sources of the model contain
IsSpace(c) == c \in {" ", "\t"}

\* s[n:]
Drop(s, n) == SubSeq(s, n + 1, Len(s))

\* strings.HasPrefix
HasPrefix(s, p) == Len(s) >= Len(p) /\ SubSeq(s, 1, Len(p)) = p

\* strings.Repeat of a one-character string
Repeat(c, n) == [i \in 1..n |-> c]

\* the turns of a loop that runs n times, none when n is negative
Turns(n) == 1..(IF n > 0 THEN n ELSE 0)

\* the zeros fmt pads with
Zeros(n) == [i \in Turns(n) |-> "0"]

RECURSIVE TrimLeft(_)
TrimLeft(s) ==
    IF s # <<>> /\ IsSpace(Head(s)) THEN TrimLeft(Tail(s)) ELSE s

RECURSIVE TrimRight(_)
TrimRight(s) ==
    IF s # <<>> /\ IsSpace(s[Len(s)]) THEN TrimRight(SubSeq(s, 1, Len(s) - 1)) ELSE s

\* strings.TrimSpace
TrimSpace(s) == TrimRight(TrimLeft(s))

\* the first white-space-free run of s, s not starting with white space
RECURSIVE FirstField(_)
FirstField(s) ==
    IF s = <<>> \/ IsSpace(Head(s)) THEN <<>> ELSE <<Head(s)>> \o FirstField(Tail(s))

\* strings.Fields
RECURSIVE Fields(_)
Fields(s) ==
    LET t == TrimLeft(s) IN
    IF t = <<>> THEN <<>>
    ELSE LET f == FirstField(t) IN <<f>> \o Fields(Drop(t, Len(f)))

(***************************************************************************)
(* Numbers: [neg, bits], bits the binary digits of the magnitude, most     *)
(* significant first, no leading zero (the empty sequence is 0).           *)
(***************************************************************************)
RECURSIVE StripZeros(_)
StripZeros(b) == IF b # <<>> /\ Head(b) = "0" THEN StripZeros(Tail(b)) ELSE b

\* the binary digits of a natural number of the model checker
RECURSIVE IntToBits(_)
IntToBits(n) ==
    IF n = 0 THEN <<>>
    ELSE Append(IntToBits(n \div 2), IF n % 2 = 1 THEN "1" ELSE "0")

DigitVal(c) == CHOOSE v \in 0..9 : <<"0", "1", "2", "3", "4", "5", "6", "7", "8", "9">>[v + 1] = c

\* a decimal numeral (digit values) divided by two, digit by digit
Half(ds) ==
    [i \in 1..Len(ds) |-> ((IF i > 1 THEN ds[i - 1] % 2 ELSE 0) * 10 + ds[i]) \div 2]

\* the binary digits of the value of a decimal numeral
RECURSIVE DecToBits(_)
DecToBits(ds) ==
    IF \A i \in 1..Len(ds) : ds[i] = 0 THEN <<>>
    ELSE Append(DecToBits(Half(ds)), IF ds[Len(ds)] % 2 = 1 THEN "1" ELSE "0")

\* whether a magnitude fits a signed integer of w bits
InRange(neg, bits, w) ==
    \/ Len(bits) <= w - 1
    \/ neg /\ bits = <<"1">> \o Repeat("0", w - 1)

HasSign(s) == s # <<>> /\ Head(s) \in {"+", "-"}

\* strconv.Atoi: an optional sign, then decimal digits only, within the range of int
Atoi(s) ==
    LET body == IF HasSign(s) THEN Tail(s) ELSE s
        bits == DecToBits([i \in 1..Len(body) |-> DigitVal(body[i])])
        neg  == HasSign(s) /\ Head(s) = "-"
    IN  IF body = <<>> \/ \E i \in 1..Len(body) : body[i] \notin DecDigits
        THEN [ok |-> FALSE, neg |-> FALSE, bits |-> <<>>]
        ELSE IF ~InRange(neg, bits, IntSize)
        THEN [ok |-> FALSE, neg |-> FALSE, bits |-> <<>>]
        ELSE [ok |-> TRUE, neg |-> neg /\ bits # <<>>, bits |-> bits]

\* strconv.ParseInt(s, 2, 64)
ParseInt2(s) ==
    LET body == IF HasSign(s) THEN Tail(s) ELSE s
        bits == StripZeros(body)
        neg  == HasSign(s) /\ Head(s) = "-"
    IN  IF body = <<>> \/ \E i \in 1..Len(body) : body[i] \notin BinDigits
        THEN [ok |-> FALSE, neg |-> FALSE, bits |-> <<>>]
        ELSE IF ~InRange(neg, bits, IntSize)
        THEN [ok |-> FALSE, neg |-> FALSE, bits |-> <<>>]
        ELSE [ok |-> TRUE, neg |-> neg /\ bits # <<>>, bits |-> bits]

\* fmt's zero padding to a width: the sign takes one place of the width
ZeroPad(neg, digits, width) ==
    LET prec == IF neg THEN width - 1 ELSE width
        body == Zeros(prec - Len(digits)) \o digits
    IN  IF neg THEN <<"-">> \o body ELSE body

\* the verb %b, which does not pad
FormatB08_NoPad(n) ==
    ZeroPad(n.neg, IF n.bits = <<>> THEN <<"0">> ELSE n.bits, 0)

\* fmt.Sprintf("%08b", n)
FormatB08(n) ==
    ZeroPad(n.neg, IF n.bits = <<>> THEN <<"0">> ELSE n.bits, DataWidth)

HexChars == <<"0", "1", "2", "3", "4", "5", "6", "7", "8", "9", "A", "B", "C", "D", "E", "F">>

BitVal(c) == IF c = "1" THEN 1 ELSE 0

\* the upper-case hexadecimal digits of a magnitude
HexDigitsOf(bits) ==
    LET padded == Zeros((4 - (Len(bits) % 4)) % 4) \o bits
    IN  [i \in 1..(Len(padded) \div 4) |->
            HexChars[8 * BitVal(padded[4 * i - 3]) + 4 * BitVal(padded[4 * i - 2])
                     + 2 * BitVal(padded[4 * i - 1]) + BitVal(padded[4 * i]) + 1]]

\* fmt.Sprintf("%04X", n)
FormatX04(n) ==
    ZeroPad(n.neg, IF n.bits = <<>> THEN <<"0">> ELSE HexDigitsOf(n.bits), HexWidth)

(***************************************************************************)
(* The opcode table (cfg.Opcodes).  config.json is not part of the         *)
(* sources; the table holds the mnemonics of the README's example with     *)
(* opcodes that are non-empty strings of binary digits.                    *)
(***************************************************************************)
LOD == <<"L", "O", "D">>
SUB == <<"S", "U", "B">>
BRZ == <<"B", "R", "Z">>
BRN == <<"B", "R", "N">>

Opcodes ==
    (LOD :> <<"0", "0", "0", "1">>) @@ (SUB :> <<"0", "0", "1", "0">>)
    @@ (BRZ :> <<"1", "0", "1">>) @@ (BRN :> <<"1", "1", "0", "0">>)

(***************************************************************************)
(* The encoder.  A failure is the kind of its error message; "" is nil.    *)
(***************************************************************************)
ErrFormat      == "invalid instruction format"
ErrOpcode      == "unknown opcode"
ErrDestination == "invalid destination"
ErrTag         == "unknown tag"
ErrBinary      == "binary data should be 8 bits long"
ErrDecimal     == "invalid decimal data"

isComment(line) == HasPrefix(line, <<"/", "/">>)

isTag(line) == HasPrefix(line, <<"#">>)

isDestination(part) == part = <<"R", "0">> \/ part = <<"R", "1">>

processDestination(dest) ==
    IF dest = <<"R", "0">> THEN [val |-> <<"0">>, err |-> ""]
    ELSE IF dest = <<"R", "1">> THEN [val |-> <<"1">>, err |-> ""]
    ELSE [val |-> <<>>, err |-> ErrDestination]

\* getDestAndData, were a single operand always read as the destination
getDestAndData_AlwaysDest(parts) ==
    IF Len(parts) = 1 THEN [dest |-> <<>>, data |-> <<>>, err |-> ""]
    ELSE IF Len(parts) = 2 THEN
        LET d == processDestination(parts[2])
        IN  [dest |-> d.val, data |-> <<>>, err |-> d.err]
    ELSE IF Len(parts) = 3 THEN
        LET d == processDestination(parts[2])
        IN  [dest |-> d.val, data |-> parts[3], err |-> d.err]
    ELSE [dest |-> <<>>, data |-> <<>>, err |-> ErrFormat]

getDestAndData(parts) ==
    IF Len(parts) = 1 THEN [dest |-> <<>>, data |-> <<>>, err |-> ""]
    ELSE IF Len(parts) = 2 THEN
        IF isDestination(parts[2])
        THEN LET d == processDestination(parts[2])
             IN  [dest |-> d.val, data |-> <<>>, err |-> d.err]
        ELSE [dest |-> <<>>, data |-> parts[2], err |-> ""]
    ELSE IF Len(parts) = 3 THEN
        LET d == processDestination(parts[2])
        IN  [dest |-> d.val, data |-> parts[3], err |-> d.err]
    ELSE [dest |-> <<>>, data |-> <<>>, err |-> ErrFormat]

processTag(data, tagTable) ==
    LET name == Drop(data, 1) IN
    IF name \notin DOMAIN tagTable THEN [val |-> <<>>, err |-> ErrTag]
    ELSE [val |-> FormatB08([neg |-> FALSE, bits |-> IntToBits(tagTable[name])]),
          err |-> ""]

processBinOrDecData(data) ==
    IF HasPrefix(data, <<"0", "b">>) THEN
        LET rest == Drop(data, 2) IN
        IF Len(rest) # DataWidth THEN [val |-> <<>>, err |-> ErrBinary]
        ELSE [val |-> rest, err |-> ""]
    ELSE
        LET decimal == Atoi(data) IN
        IF ~decimal.ok THEN [val |-> <<>>, err |-> ErrDecimal]
        ELSE [val |-> FormatB08(decimal), err |-> ""]

processData(data, tagTable) ==
    IF HasPrefix(data, <<"#">>) THEN processTag(data, tagTable)
    ELSE processBinOrDecData(data)

Failure(e) == [err |-> e, opcode |-> <<>>, dest |-> <<>>, data |-> <<>>]

\* the returned string is opcode \o dest \o data; the three fields are what the
\* progress line prints
assembleInstruction(instruction, tagTable) ==
    LET parts == Fields(instruction) IN
    IF Len(parts) < 1 THEN Failure(ErrFormat)
    ELSE IF parts[1] \notin DOMAIN Opcodes THEN Failure(ErrOpcode)
    ELSE
        LET dd == getDestAndData(parts) IN
        IF dd.err # "" THEN Failure(dd.err)
        ELSE
            LET dest == IF dd.dest = <<>> THEN <<"0">> ELSE dd.dest
                pd   == IF dd.data = <<>>
                        THEN [val |-> Repeat("0", 8), err |-> ""]
                        ELSE processData(dd.data, tagTable)
            IN  IF pd.err # "" THEN Failure(pd.err)
                ELSE [err |-> "", opcode |-> Opcodes[parts[1]], dest |-> dest,
                      data |-> pd.val]

Encoding(r) == r.opcode \o r.dest \o r.data

(***************************************************************************)
(* The hex serializer: one row per WriteString.  ok is FALSE when ParseInt *)
(* fails on an instruction, where the code panics.                         *)
(***************************************************************************)
FillerRow == <<"0", "0", "0", "0", ";", "\n">>

\* convertToHexAndFormat, were the image cut at its capacity
convertToHexAndFormat_Truncated(program) ==
    [ok   |-> \A i \in 1..Len(program) : ParseInt2(program[i]).ok,
     rows |-> SubSeq([i \in 1..Len(program) |->
                         FormatX04(ParseInt2(program[i])) \o <<";", "\n">>]
                     \o [i \in Turns(HexCapacity - Len(program)) |-> FillerRow],
                     1, HexCapacity)]

convertToHexAndFormat(program) ==
    [ok   |-> \A i \in 1..Len(program) : ParseInt2(program[i]).ok,
     rows |-> [i \in 1..Len(program) |->
                  FormatX04(ParseInt2(program[i])) \o <<";", "\n">>]
              \o [i \in Turns(HexCapacity - Len(program)) |-> FillerRow]]

(***************************************************************************)
(* The run: main from the call of parse on.  src is what the scanner       *)
(* yields, line by line; out is the standard output (the progress line of  *)
(* an encoded instruction, the error line of a failed one).                *)
(***************************************************************************)
VARIABLES src, pos, lineNum, tags, instructions, line, assembled, hadError,
          out, hex, pc

vars == <<src, pos, lineNum, tags, instructions, line, assembled, hadError,
          out, hex, pc>>

NoTags == [n \in {} |-> 0]

InitOn(sources) ==
    /\ src \in sources
    /\ pos = 1
    /\ lineNum = 0
    /\ tags = NoTags
    /\ instructions = <<>>
    /\ line = 0
    /\ assembled = <<>>
    /\ hadError = FALSE
    /\ out = <<>>
    /\ hex = <<>>
    /\ pc = "parse"

\* the loop of parse, were the first definition of a tag to win
ParseLine_FirstWins ==
    /\ pc = "parse"
    /\ pos <= Len(src)
    /\ LET text == TrimSpace(src[pos]) IN
       IF text = <<>> \/ isComment(text)
       THEN UNCHANGED <<tags, instructions, lineNum>>
       ELSE IF isTag(text)
       THEN /\ tags' = [n \in DOMAIN tags \cup {Drop(text, 1)} |->
                           IF n \in DOMAIN tags THEN tags[n] ELSE lineNum]
            /\ UNCHANGED <<instructions, lineNum>>
       ELSE /\ instructions' = Append(instructions, text)
            /\ lineNum' = lineNum + 1
            /\ UNCHANGED tags
    /\ pos' = pos + 1
    /\ UNCHANGED <<src, line, assembled, hadError, out, hex, pc>>

\* one turn of the loop of parse
ParseLine ==
    /\ pc = "parse"
    /\ pos <= Len(src)
    /\ LET text == TrimSpace(src[pos]) IN
       IF text = <<>> \/ isComment(text)
       THEN UNCHANGED <<tags, instructions, lineNum>>
       ELSE IF isTag(text)
       THEN /\ tags' = [n \in DOMAIN tags \cup {Drop(text, 1)} |->
                           IF n = Drop(text, 1) THEN lineNum ELSE tags[n]]
            /\ UNCHANGED <<instructions, lineNum>>
       ELSE /\ instructions' = Append(instructions, text)
            /\ lineNum' = lineNum + 1
            /\ UNCHANGED tags
    /\ pos' = pos + 1
    /\ UNCHANGED <<src, line, assembled, hadError, out, hex, pc>>

\* parse, were it to return with the last line unread
ParseReturn_Early ==
    /\ pc = "parse"
    /\ pos >= Len(src)
    /\ pc' = "assemble"
    /\ UNCHANGED <<src, pos, lineNum, tags, instructions, line, assembled,
                   hadError, out, hex>>

\* the scanner is at the end: parse returns and assembleProgram starts
ParseReturn ==
    /\ pc = "parse"
    /\ pos > Len(src)
    /\ pc' = "assemble"
    /\ UNCHANGED <<src, pos, lineNum, tags, instructions, line, assembled,
                   hadError, out, hex>>

\* the loop of assembleProgram without its continue: the empty string a failed
\* line returns is appended too
AssembleLine_NoContinue ==
    /\ pc = "assemble"
    /\ line < Len(instructions)
    /\ LET instr == instructions[line + 1]
           r     == assembleInstruction(instr, tags)
       IN  IF r.err # ""
           THEN /\ out' = Append(out, [kind |-> "error", err |-> r.err, instr |-> instr])
                /\ hadError' = TRUE
                /\ assembled' = Append(assembled, Encoding(r))
           ELSE /\ out' = Append(out, [kind |-> "ok", line |-> line, instr |-> instr,
                                       opcode |-> r.opcode, dest |-> r.dest,
                                       data |-> r.data])
                /\ assembled' = Append(assembled, Encoding(r))
                /\ UNCHANGED hadError
    /\ line' = line + 1
    /\ UNCHANGED <<src, pos, lineNum, tags, instructions, hex, pc>>

\* one turn of the loop of assembleProgram
AssembleLine ==
    /\ pc = "assemble"
    /\ line < Len(instructions)
    /\ LET instr == instructions[line + 1]
           r     == assembleInstruction(instr, tags)
       IN  IF r.err # ""
           THEN /\ out' = Append(out, [kind |-> "error", err |-> r.err, instr |-> instr])
                /\ hadError' = TRUE
                /\ UNCHANGED assembled
           ELSE /\ out' = Append(out, [kind |-> "ok", line |-> line, instr |-> instr,
                                       opcode |-> r.opcode, dest |-> r.dest,
                                       data |-> r.data])
                /\ assembled' = Append(assembled, Encoding(r))
                /\ UNCHANGED hadError
    /\ line' = line + 1
    /\ UNCHANGED <<src, pos, lineNum, tags, instructions, hex, pc>>

\* assembleProgram returns to main
AssembleReturn ==
    /\ pc = "assemble"
    /\ line >= Len(instructions)
    /\ pc' = "check"
    /\ UNCHANGED <<src, pos, lineNum, tags, instructions, line, assembled,
                   hadError, out, hex>>

\* main returns without output when a line failed
ReturnOnError ==
    /\ pc = "check"
    /\ hadError
    /\ pc' = "exit"
    /\ UNCHANGED <<src, pos, lineNum, tags, instructions, line, assembled,
                   hadError, out, hex>>

\* main serializes the program and writes the hex image, to the .hex file or to
\* the standard output; a write the file system refuses is outside the model
WriteHex ==
    /\ pc = "check"
    /\ ~hadError
    /\ convertToHexAndFormat(assembled).ok
    /\ hex' = convertToHexAndFormat(assembled).rows
    /\ pc' = "written"
    /\ UNCHANGED <<src, pos, lineNum, tags, instructions, line, assembled,
                   hadError, out>>

\* convertToHexAndFormat panics: the process dies without output
HexPanic ==
    /\ pc = "check"
    /\ ~hadError
    /\ ~convertToHexAndFormat(assembled).ok
    /\ pc' = "panic"
    /\ UNCHANGED <<src, pos, lineNum, tags, instructions, line, assembled,
                   hadError, out, hex>>

Next ==
    \/ ParseLine
    \/ ParseReturn
    \/ AssembleLine
    \/ AssembleReturn
    \/ ReturnOnError
    \/ WriteHex
    \/ HexPanic

(***************************************************************************)
(* Sources.                                                                *)
(***************************************************************************)
SeqsUpTo(S, n) == UNION {[1..m -> S] : m \in 0..n}

Sp == <<" ">>
Tab == <<"\t">>

\* Spec: every source of at most MaxLines lines over these lines: two tag
\* definitions (one wrapped in white space), references to them, a comment,
\* a blank line, an unknown mnemonic and a negative decimal
ShortLines ==
    { <<"#", "a">>,
      <<" ", "#", "b", " ">>,
      BRN \o Sp \o <<"#", "a">>,
      BRZ \o Sp \o Sp \o <<"R", "1">> \o Tab \o <<"#", "b">>,
      <<"/", "/", " ", "c">>,
      <<" ">>,
      <<"N", "O", "P">>,
      LOD \o Sp \o <<"-", "5">> }

ShortSources == SeqsUpTo(ShortLines, MaxLines)

Init == InitOn(ShortSources)

Spec == Init /\ [][Next]_vars

R0 == <<"R", "0">>
R1 == <<"R", "1">>
MaxIntNumeral ==
    <<"9", "2", "2", "3", "3", "7", "2", "0", "3", "6", "8", "5", "4", "7", "7", "5", "8", "0", "7">>

\* the operand tokens of SpecData: the registers and a token that is none, decimal
\* numerals up to one past the largest int, a negative one, 0b literals of the right
\* and of a wrong length and one with a character that is no binary digit, a tag
\* reference and a token that is none of these
DataTokens ==
    { R0, R1, <<"R", "2">>,
      <<"1", "0">>, <<"2", "5", "5">>, <<"2", "5", "6">>,
      <<"9", "9", "9", "9", "9", "9">>,
      MaxIntNumeral,
      SubSeq(MaxIntNumeral, 1, 18) \o <<"8">>,
      <<"-", "5">>,
      <<"0", "b", "0", "0", "0", "0", "1", "0", "1", "0">>,
      <<"0", "b", "1", "0", "1">>,
      <<"0", "b", "0", "0", "0", "0", "1", "0", "1", "x">>,
      <<"#", "a">>,
      <<"x", "1">> }

OperandLists ==
    SeqsUpTo(DataTokens, 2) \cup (SeqsUpTo({R1, <<"1", "0">>}, MaxOperands) \ SeqsUpTo({R1, <<"1", "0">>}, 2))

\* a mnemonic followed by its operands, one space before each
RECURSIVE JoinLine(_, _)
JoinLine(mnemonic, ops) ==
    IF ops = <<>> THEN mnemonic
    ELSE JoinLine(mnemonic, SubSeq(ops, 1, Len(ops) - 1)) \o Sp \o ops[Len(ops)]

\* the decimal numeral of a natural number
RECURSIVE DecimalOf(_)
DecimalOf(n) ==
    IF n < 10 THEN <<HexChars[n + 1]>>
    ELSE Append(DecimalOf(n \div 10), HexChars[(n % 10) + 1])

\* the binary numeral of n in exactly w digits
BitsOf(n, w) == [i \in 1..w |-> IF (n \div (2 ^ (w - i))) % 2 = 1 THEN "1" ELSE "0"]

\* SpecData: one line with a known or an unknown mnemonic and each list of
\* operands, alone or after a definition of the tag it may refer to; and, for each
\* value a data field can hold, the decimal literal beside its 0b literal
DataSources ==
    {<<JoinLine(m, ops)>> : m \in {LOD, <<"N", "O", "P">>}, ops \in OperandLists}
    \cup {<<<<"#", "a">>, JoinLine(BRN, ops)>> : ops \in SeqsUpTo(DataTokens, 1)}
    \cup {<<JoinLine(LOD, <<R1, DecimalOf(d)>>),
            JoinLine(LOD, <<R1, <<"0", "b">> \o BitsOf(d, DataWidth)>>)>> :
            d \in 0..(2 ^ DataWidth - 1)}

InitData == InitOn(DataSources)

SpecData == InitData /\ [][Next]_vars

\* SpecLong: a run of instruction lines of each length around the capacity of the
\* hex image and around the largest address a data field holds, then a tag
\* definition and a last line that encodes, fails, or encodes to no bit string
LeadLines ==
    << JoinLine(LOD, <<R1, <<"1", "0">>>>),
       JoinLine(SUB, <<R0, <<"1">>>>),
       JoinLine(BRZ, <<R0, <<"#", "e", "n", "d">>>>) >>

LongLens ==
    {0, 2, HexCapacity - 2, HexCapacity - 1, HexCapacity, MaxLong - 1, MaxLong}

LastLines ==
    { JoinLine(BRN, <<<<"#", "e", "n", "d">>>>),
      <<"N", "O", "P">>,
      JoinLine(LOD, <<<<"-", "5">>>>) }

LongSources ==
    {[i \in 1..n |-> LeadLines[((i - 1) % Len(LeadLines)) + 1]]
        \o <<<<"#", "e", "n", "d">>, last>> : n \in LongLens, last \in LastLines}

InitLong == InitOn(LongSources)

SpecLong == InitLong /\ [][Next]_vars

(***************************************************************************)
(* What the claims speak of, read off the source text and the output.      *)
(***************************************************************************)
\* the line without the white space around it
Body(l) == TrimSpace(l)

IsBlankLine(l) == \A i \in 1..Len(l) : IsSpace(l[i])

IsCommentLine(l) == Len(Body(l)) >= 2 /\ Body(l)[1] = "/" /\ Body(l)[2] = "/"

IsTagLine(l) == ~IsBlankLine(l) /\ Body(l)[1] = "#"

IsInstrLine(l) == ~IsBlankLine(l) /\ ~IsCommentLine(l) /\ ~IsTagLine(l)

\* the tag names the source defines
DefinedNames == {Drop(Body(src[i]), 1) : i \in {j \in 1..Len(src) : IsTagLine(src[j])}}

\* the instruction lines before line i of the source
InstrBefore(i) == Cardinality({j \in 1..(i - 1) : IsInstrLine(src[j])})

\* the line of the last definition of a defined name
LastDef(name) ==
    CHOOSE i \in 1..Len(src) :
        /\ IsTagLine(src[i]) /\ Drop(Body(src[i]), 1) = name
        /\ \A j \in (i + 1)..Len(src) :
              ~(IsTagLine(src[j]) /\ Drop(Body(src[j]), 1) = name)

\* the source line of the instruction with address a
LineOfAddress(a) ==
    CHOOSE i \in 1..Len(src) : IsInstrLine(src[i]) /\ InstrBefore(i) = a

\* the number of instruction lines of the source
InstrCount == InstrBefore(Len(src) + 1)

\* the operand tokens of an instruction line
Operands(instr) == Tail(Fields(instr))

\* the data operand of an instruction line the way the instruction set reads it:
\* the second of two operands, or a single operand that is no register
DataOperand(instr) ==
    LET ops == Operands(instr) IN
    IF Len(ops) = 2 THEN ops[2]
    ELSE IF Len(ops) = 1 /\ ops[1] \notin {<<"R", "0">>, <<"R", "1">>} THEN ops[1]
    ELSE <<>>

\* the value of a string of binary digits
RECURSIVE BinValue(_)
BinValue(b) ==
    IF b = <<>> THEN 0 ELSE 2 * BinValue(SubSeq(b, 1, Len(b) - 1)) + BitVal(b[Len(b)])

Ended == pc \in {"exit", "written", "panic"}

OutLines(kind) == {i \in 1..Len(out) : out[i].kind = kind}

\* C1: once the source is parsed, every defined tag is bound to the number of
\* instruction lines before its last definition, and every instruction encoded
\* with the operand #name carries that number as its data field and is never
\* refused as an unknown tag, wherever the instruction stands.
C1_TagResolvesToLastDefinition ==
    pc # "parse" =>
        \A name \in DefinedNames :
            /\ name \in DOMAIN tags
            /\ tags[name] = InstrBefore(LastDef(name))
            /\ \A i \in 1..Len(out) :
                  DataOperand(out[i].instr) = <<"#">> \o name =>
                      /\ out[i].kind = "error" => out[i].err # ErrTag
                      /\ out[i].kind = "ok" =>
                            BinValue(out[i].data) = InstrBefore(LastDef(name))

\* a name defined twice at different addresses, referenced by an encoded
\* instruction before its last definition and by one after it
C1_Witness ==
    /\ Ended
    /\ \E name \in DefinedNames :
          /\ \E j \in 1..Len(src) :
                /\ IsTagLine(src[j]) /\ Drop(Body(src[j]), 1) = name
                /\ InstrBefore(j) # InstrBefore(LastDef(name))
          /\ \E i \in OutLines("ok") :
                /\ DataOperand(out[i].instr) = <<"#">> \o name
                /\ out[i].line < InstrBefore(LastDef(name))
          /\ \E i \in OutLines("ok") :
                /\ DataOperand(out[i].instr) = <<"#">> \o name
                /\ out[i].line >= InstrBefore(LastDef(name))

\* C2: no instruction is encoded while the source is being read; once reading is
\* over the whole source has been consumed, and no later step changes the tag
\* table or the list of instruction lines.
C2_TagTableBuiltBeforeEncoding ==
    [][/\ pc = "parse" => (line' = 0 /\ out' = <<>> /\ assembled' = <<>>)
       /\ pc' # "parse" => pos' > Len(src')
       /\ pc # "parse" => (tags' = tags /\ instructions' = instructions)]_vars

\* an instruction was encoded against a tag defined later in the source
C2_Witness ==
    /\ pc = "assemble"
    /\ \E i \in OutLines("ok") :
          \E name \in DefinedNames :
              /\ DataOperand(out[i].instr) = <<"#">> \o name
              /\ out[i].line < tags[name]

\* the encodings of the instruction lines of seq that encode, in order
RECURSIVE OkEncodings(_, _)
OkEncodings(seq, tagTable) ==
    IF seq = <<>> THEN <<>>
    ELSE LET r == assembleInstruction(seq[Len(seq)], tagTable)
             before == OkEncodings(SubSeq(seq, 1, Len(seq) - 1), tagTable)
         IN  IF r.err = "" THEN Append(before, Encoding(r)) ELSE before

\* the instruction lines of the source, stripped, in source order
InstrLines == [a \in 1..InstrCount |-> Body(src[LineOfAddress(a - 1)])]

\* C3: the program is the encodings of the instruction lines handled so far that
\* encode, in source order; at the end of a run in which no line failed it has one
\* instruction per instruction line of the source, the one at position i being
\* the encoding of the line with address i.
C3_ProgramIsEncodingsInOrder ==
    pc # "parse" =>
        /\ assembled = OkEncodings(SubSeq(InstrLines, 1, line), tags)
        /\ (Ended /\ \A a \in 1..InstrCount :
                         assembleInstruction(InstrLines[a], tags).err = "") =>
               /\ Len(assembled) = InstrCount
               /\ \A a \in 1..InstrCount :
                     assembled[a] = Encoding(assembleInstruction(InstrLines[a], tags))

\* a run without failing lines over a source that mixes instruction lines with
\* lines that are none
C3_Witness ==
    /\ Ended
    /\ ~hadError
    /\ Len(assembled) >= 2
    /\ assembled[1] # assembled[2]
    /\ Len(src) > Len(assembled)

\* C4 as claimed: every instruction line is handed to the encoder, every failing
\* line gets its error line, the failure flag is set exactly when a line has
\* failed and is never cleared, and the hex image is written exactly when the
\* flag is clear at the end.
C4_FailSlowOutputIffClean ==
    /\ [](/\ (pc # "parse" /\ pc # "assemble") => Len(out) = InstrCount
          /\ pc # "parse" =>
                \A i \in 1..Len(out) :
                    /\ out[i].instr = InstrLines[i]
                    /\ out[i].kind = "error" <=>
                          assembleInstruction(InstrLines[i], tags).err # ""
          /\ hadError <=> OutLines("error") # {}
          /\ Ended => (pc = "written" <=> ~hadError))
    /\ [][hadError => hadError']_vars

\* the value of a string of upper-case hexadecimal digits
RECURSIVE HexValue(_)
HexValue(h) ==
    IF h = <<>> THEN 0
    ELSE 16 * HexValue(SubSeq(h, 1, Len(h) - 1))
         + (CHOOSE v \in 0..15 : HexChars[v + 1] = h[Len(h)])

Max(a, b) == IF a >= b THEN a ELSE b

\* C5: the written hex image of a program of n instructions has max(n, 64) rows;
\* row i of the first n is instruction i as hexadecimal digits followed by ";",
\* and every row after them is the filler 0000; (so 64 - n of them when n < 64,
\* none when n >= 64, and no instruction is dropped).
C5_HexImageRows ==
    pc = "written" =>
        LET n == Len(assembled) IN
        /\ Len(hex) = Max(n, HexCapacity)
        /\ \A i \in 1..n :
              /\ Len(hex[i]) >= HexWidth + 2
              /\ SubSeq(hex[i], Len(hex[i]) - 1, Len(hex[i])) = <<";", "\n">>
              /\ HexValue(SubSeq(hex[i], 1, Len(hex[i]) - 2)) = BinValue(assembled[i])
        /\ \A i \in (n + 1)..Len(hex) : hex[i] = <<"0", "0", "0", "0", ";", "\n">>

\* an image of a program longer than the capacity
C5_Witness ==
    /\ pc = "written"
    /\ Len(assembled) > HexCapacity
    /\ Len(hex) = Len(assembled)
    /\ hex[Len(hex)] # hex[1]

IsBinary(t) == \A i \in 1..Len(t) : t[i] \in BinDigits

\* whether the line has a known mnemonic and, before its data operand, nothing
\* but a register
ReachesData(instr) ==
    /\ Fields(instr)[1] \in DOMAIN Opcodes
    /\ Len(Operands(instr)) \in {1, 2}
    /\ Len(Operands(instr)) = 2 => Operands(instr)[1] \in {R0, R1}

\* C6 as claimed: a data operand 0b... is accepted only if what follows 0b is
\* exactly 8 binary digits, which then are the data field; any other remainder
\* makes the line fail, with "binary data should be 8 bits long".
C6_BinaryLiteralIsEightBinaryDigits ==
    \A i \in 1..Len(out) :
        LET tok  == DataOperand(out[i].instr)
            rest == Drop(tok, 2)
        IN  HasPrefix(tok, <<"0", "b">>) =>
                IF Len(rest) = DataWidth /\ IsBinary(rest)
                THEN out[i].kind = "ok" => out[i].data = rest
                ELSE /\ out[i].kind = "error"
                     /\ ReachesData(out[i].instr) => out[i].err = ErrBinary

IsDecimal(t) == t # <<>> /\ \A i \in 1..Len(t) : t[i] \in DecDigits

\* a <= b, for decimal numerals of any length
DecLeq(a, b) ==
    LET x == StripZeros(a)
        y == StripZeros(b)
    IN  \/ Len(x) < Len(y)
        \/ /\ Len(x) = Len(y)
           /\ \/ x = y
              \/ \E i \in 1..Len(x) :
                    /\ DigitVal(x[i]) < DigitVal(y[i])
                    /\ \A j \in 1..(i - 1) : x[j] = y[j]

\* the value of a decimal numeral
RECURSIVE DecValue(_)
DecValue(t) ==
    IF t = <<>> THEN 0
    ELSE 10 * DecValue(SubSeq(t, 1, Len(t) - 1)) + DigitVal(t[Len(t)])

\* what the claim says of the decimal operand tok of line i of the output
DecimalRendered(i, tok) ==
    /\ out[i].kind = "error" => out[i].err # ErrDecimal
    /\ ReachesData(out[i].instr) => out[i].kind = "ok"
    /\ out[i].kind = "ok" =>
          IF DecLeq(tok, <<"2", "5", "5">>)
          THEN /\ out[i].data = BitsOf(DecValue(tok), DataWidth)
               /\ \A j \in OutLines("ok") :
                     (/\ DataOperand(out[j].instr) = <<"0", "b">> \o out[i].data
                      /\ Fields(out[j].instr)[1] = Fields(out[i].instr)[1]
                      /\ out[j].dest = out[i].dest)
                         => Encoding(out[j]) = Encoding(out[i])
          ELSE Len(out[i].data) > DataWidth

\* C7 as claimed: every non-negative decimal data operand is accepted; up to 255
\* the instruction is the one its 8-bit 0b literal gives, above 255 the data field
\* is wider than 8 bits.
C7_DecimalAlwaysAccepted ==
    \A i \in 1..Len(out) :
        IsDecimal(DataOperand(out[i].instr)) =>
            DecimalRendered(i, DataOperand(out[i].instr))

\* C7 as amended: a non-negative decimal data operand that fits the int of the
\* build (at most 2^63 - 1) is accepted; up to 255 the instruction is the one its
\* 8-bit 0b literal gives, above 255 the data field is wider than 8 bits.  A
\* larger numeral is refused as invalid decimal data.
C7_DecimalInRangeAccepted ==
    \A i \in 1..Len(out) :
        LET tok == DataOperand(out[i].instr) IN
        IsDecimal(tok) =>
            IF DecLeq(tok, MaxIntNumeral)
            THEN DecimalRendered(i, tok)
            ELSE /\ out[i].kind = "error"
                 /\ ReachesData(out[i].instr) => out[i].err = ErrDecimal

\* a decimal literal and its 0b literal encoded in one run, and they agree
C7_Witness ==
    /\ Ended
    /\ \E i, j \in OutLines("ok") :
          /\ DataOperand(out[i].instr) = <<"1", "0">>
          /\ DataOperand(out[j].instr) = <<"0", "b", "0", "0", "0", "0", "1", "0", "1", "0">>
          /\ Encoding(out[i]) = Encoding(out[j])

\* what the line gives when its destination bit is dest and tok its data operand
EncodedWith(i, dest, tok) ==
    LET pd == processData(tok, tags) IN
    IF pd.err # "" THEN out[i].kind = "error" /\ out[i].err = pd.err
    ELSE out[i].kind = "ok" /\ out[i].dest = dest /\ out[i].data = pd.val

\* C8: a line with a known mnemonic and no operand has destination 0 and data
\* 00000000; with one operand, R0 or R1 is the destination (data 00000000) and
\* anything else is the data operand (destination 0), never an invalid
\* destination; with two, the first must be R0 or R1, or else the line fails with
\* invalid destination whatever the second is; with more, it fails with invalid
\* instruction format.
C8_OperandsByTokenCount ==
    \A i \in 1..Len(out) :
        LET ops == Operands(out[i].instr)
            bit(reg) == IF reg = R0 THEN <<"0">> ELSE <<"1">>
            zero == <<"0", "0", "0", "0", "0", "0", "0", "0">>
        IN  Fields(out[i].instr)[1] \in DOMAIN Opcodes =>
                /\ Len(ops) = 0 =>
                      out[i].kind = "ok" /\ out[i].dest = <<"0">> /\ out[i].data = zero
                /\ (Len(ops) = 1 /\ ops[1] \in {R0, R1}) =>
                      out[i].kind = "ok" /\ out[i].dest = bit(ops[1]) /\ out[i].data = zero
                /\ (Len(ops) = 1 /\ ops[1] \notin {R0, R1}) =>
                      /\ EncodedWith(i, <<"0">>, ops[1])
                      /\ out[i].kind = "error" => out[i].err # ErrDestination
                /\ (Len(ops) = 2 /\ ops[1] \in {R0, R1}) =>
                      EncodedWith(i, bit(ops[1]), ops[2])
                /\ (Len(ops) = 2 /\ ops[1] \notin {R0, R1}) =>
                      out[i].kind = "error" /\ out[i].err = ErrDestination
                /\ Len(ops) > 2 =>
                      out[i].kind = "error" /\ out[i].err = ErrFormat

\* a single operand that is no register was encoded as the data
C8_Witness ==
    \E i \in OutLines("ok") :
        /\ Len(Operands(out[i].instr)) = 1
        /\ Operands(out[i].instr)[1] = <<"2", "5", "5">>
        /\ out[i].dest = <<"0">>
        /\ out[i].data = <<"1", "1", "1", "1", "1", "1", "1", "1">>

\* C9 as claimed: every instruction the encoder returns is a string of binary
\* digits, and the hex serializer never panics.
C9_EncodedInstructionsAreBitStrings ==
    /\ \A i \in 1..Len(assembled) : IsBinary(assembled[i])
    /\ pc # "panic"

\* C10 as claimed: the data field of an instruction encoded with a tag operand is
\* exactly 8 bits long, whatever the address of the tag.
C10_TagDataFieldIsEightBits ==
    \A i \in OutLines("ok") :
        HasPrefix(DataOperand(out[i].instr), <<"#">>) => Len(out[i].data) = DataWidth

=============================================================================
